---------------------------- MODULE Spec2Model ----------------------------
(***************************************************************************)
(* Model of src/main.py: a chat front-end that keeps conversation turns in *)
(* the PostgreSQL table chat_history (PersistentChatHistory), writes rows  *)
(* into tables created from a JSON schema (process_schema), and dispatches *)
(* one UI submission to one of the two (handle_interaction).               *)
(*                                                                         *)
(* The database engine, the LLM provider and the langchain runnable are    *)
(* external: the engine is modelled as a heap of row slots scanned in      *)
(* physical order (a SELECT without ORDER BY), the provider as a           *)
(* nondeterministic reply or failure, and every statement may fail.        *)
(***************************************************************************)
EXTENDS Integers, Sequences, FiniteSets, TLC

VARIABLES
    heap,       \* chat_history: the table's row slots in physical (scan) order
    appended,   \* history variable: per key, the rows inserted since the last clear, in insertion order
    tables,     \* the tables created by process_schema: name -> NoTable or [cols, rows]
    hist,       \* the PersistentChatHistory object in use: NoObject or [user_id, conversation_id, messages]
    last,       \* the last operation run to completion: its inputs, statements, LLM calls and outcome
    cursor,     \* db_cursor: the result set of the last statement executed on the shared cursor
    req         \* the UI submissions in progress (one per worker thread): position and locals

vars == <<heap, appended, tables, hist, last, cursor, req>>

-----------------------------------------------------------------------------
(* Bounds of the model *)

MaxRows == 3        \* slots of chat_history
MaxDynRows == 1     \* rows of a table made by process_schema
MaxFields == 2      \* fields of a schema

Keys == {<<"u1", "c1">>, <<"u1", "c2">>, <<"u2", "c1">>}
Contents == {"hello", "bye"}
Replies == {"hi"}
Inputs == {"30", "Alice"}
DynTables == {"dynamic_data", "people"}
Threads == {1, 2}

-----------------------------------------------------------------------------
(* Messages and rows *)

\* langchain messages: the class and the content
AIMessage(content) == [class |-> "AIMessage", content |-> content]

HumanMessage(content) == [class |-> "HumanMessage", content |-> content]

\* the messages stored: what users ask and what the model replies
Messages == {HumanMessage(c) : c \in Contents} \cup {AIMessage(r) : r \in Replies}

\* SQL NULL in a text column, and a slot of the heap whose row was deleted and can be reused
NULL == "NULL"

Free == [free |-> TRUE]

NoObject == [object |-> FALSE]

NoTable == [table |-> FALSE]

\* the cursor after a statement that returns no rows
NoResult == [result |-> FALSE]

\* a worker thread with no submission to run
Idle == [pc |-> "idle"]

\* add_message: the tag stored in chat_history.message_type
MessageType(message) == IF message.class = "AIMessage" THEN "AI" ELSE "Human"

\* the row add_message inserts
ChatRow(user_id, conversation_id, message) == [user_id |-> user_id, conversation_id |-> conversation_id, message_type |-> MessageType(message), content |-> message.content]

\* fetch_existing_messages: the message built from one row
RowMessage(row) == IF row.message_type = "AI" THEN AIMessage(row.content) ELSE HumanMessage(row.content)

\* WHERE user_id = %s AND conversation_id = %s
Matches(slot, user_id, conversation_id) == slot # Free /\ slot.user_id = user_id /\ slot.conversation_id = conversation_id

RECURSIVE SelectRows(_, _, _)
\* SELECT ... FROM chat_history WHERE ...: the matching rows in scan order
SelectRows(h, user_id, conversation_id) == IF h = <<>> THEN <<>> ELSE (IF Matches(h[1], user_id, conversation_id) THEN <<h[1]>> ELSE <<>>) \o SelectRows(Tail(h), user_id, conversation_id)

\* the list comprehension of fetch_existing_messages over the fetched rows
RowsToMessages(rows) == [i \in 1..Len(rows) |-> RowMessage(rows[i])]

\* fetch_existing_messages run without interruption: execute, fetchall, convert
FetchExistingMessages(h, user_id, conversation_id) == RowsToMessages(SelectRows(h, user_id, conversation_id))

RECURSIVE TrimFree(_)
\* the engine gives back the free slots at the end of the table
TrimFree(h) == IF h # <<>> /\ h[Len(h)] = Free THEN TrimFree(SubSeq(h, 1, Len(h) - 1)) ELSE h

\* DeleteRows with the two parameters bound in the wrong order
DeleteRowsSwapped(h, user_id, conversation_id) == TrimFree([i \in 1..Len(h) |-> IF Matches(h[i], conversation_id, user_id) THEN Free ELSE h[i]])

\* DELETE FROM chat_history WHERE ...: the matching rows' slots become free
DeleteRows(h, user_id, conversation_id) == TrimFree([i \in 1..Len(h) |-> IF Matches(h[i], user_id, conversation_id) THEN Free ELSE h[i]])

\* INSERT INTO chat_history: the places the engine may put the row: a free slot, or the end
InsertPlaces(h) == {i \in 1..Len(h) : h[i] = Free} \cup {Len(h) + 1}

InsertAt(h, i, row) == IF i = Len(h) + 1 THEN Append(h, row) ELSE [h EXCEPT ![i] = row]

\* the places of two rows inserted one after the other
ValidPlaces(h, places) == places[1] \in InsertPlaces(h) /\ places[2] \in (InsertPlaces(h) \ {places[1]}) \cup {IF places[1] = Len(h) + 1 THEN Len(h) + 2 ELSE Len(h) + 1}

\* the number of rows stored
RowCount(h) == Cardinality({i \in 1..Len(h) : h[i] # Free})

-----------------------------------------------------------------------------
(* PersistentChatHistory *)

\* __init__: the object holds the messages fetched at construction; a failed SELECT raises and leaves no object
Construct(user_id, conversation_id, dbOk) ==
    /\ hist' = IF dbOk THEN [user_id |-> user_id, conversation_id |-> conversation_id, messages |-> FetchExistingMessages(heap, user_id, conversation_id)] ELSE NoObject
    /\ last' = [op |-> "construct", key |-> <<user_id, conversation_id>>, ok |-> dbOk]
    /\ UNCHANGED <<heap, appended, tables, cursor, req>>

\* add_message: INSERT, commit, then append to the object's list; a failed statement raises before the append
AddMessage(message, place, dbOk) ==
    /\ hist # NoObject
    /\ RowCount(heap) < MaxRows
    /\ place \in InsertPlaces(heap)
    /\ LET key == <<hist.user_id, hist.conversation_id>>
       IN  /\ heap' = IF dbOk THEN InsertAt(heap, place, ChatRow(hist.user_id, hist.conversation_id, message)) ELSE heap
           /\ appended' = IF dbOk THEN [appended EXCEPT ![key] = Append(@, message)] ELSE appended
           /\ hist' = IF dbOk THEN [hist EXCEPT !.messages = Append(@, message)] ELSE hist
           /\ last' = [op |-> "add_message", key |-> key, message |-> message, ok |-> dbOk]
    /\ UNCHANGED <<tables, cursor, req>>

\* clear: DELETE, commit, then clear the object's list; rowcount is what the DELETE reports
Clear(dbOk) ==
    /\ hist # NoObject
    /\ LET key == <<hist.user_id, hist.conversation_id>>
       IN  /\ heap' = IF dbOk THEN DeleteRows(heap, hist.user_id, hist.conversation_id) ELSE heap
           /\ appended' = IF dbOk THEN [appended EXCEPT ![key] = <<>>] ELSE appended
           /\ hist' = IF dbOk THEN [hist EXCEPT !.messages = <<>>] ELSE hist
           /\ last' = [op |-> "clear", key |-> key, ok |-> dbOk, rowcount |-> IF dbOk THEN Len(SelectRows(heap, hist.user_id, hist.conversation_id)) ELSE 0]
    /\ UNCHANGED <<tables, cursor, req>>

-----------------------------------------------------------------------------
(* Texts, JSON documents and Python values *)

\* one whitespace character of a text
WS == [json |-> "whitespace"]

\* JSON documents as their source text would parse: not JSON at all, a number, or an object with its members
MalformedDoc == [json |-> "malformed"]

NumberDoc == [json |-> "number"]

ObjectDoc(members) == [json |-> "object", members |-> members]

RECURSIVE LStrip(_)
LStrip(text) == IF text # <<>> /\ text[1] = WS THEN LStrip(Tail(text)) ELSE text

RECURSIVE RStrip(_)
RStrip(text) == IF text # <<>> /\ text[Len(text)] = WS THEN RStrip(SubSeq(text, 1, Len(text) - 1)) ELSE text

\* str.strip()
Strip(text) == RStrip(LStrip(text))

\* json.loads: whitespace around the document is skipped; anything but one JSON document raises JSONDecodeError
JsonLoads(text) ==
    LET body == Strip(text)
    IN  IF Len(body) # 1 \/ body[1] = MalformedDoc THEN [raise |-> "JSONDecodeError"]
        ELSE IF body[1].json = "object" THEN [raise |-> "none", type |-> "dict", value |-> body[1].members]
        ELSE [raise |-> "none", type |-> "int"]

\* dict.get(key, default)
Get(d, key, default) == IF key \in DOMAIN d THEN d[key] ELSE default

\* isinstance for the exceptions raised here: json.JSONDecodeError derives from ValueError
IsInstance(exc, cls) == exc = cls \/ (exc = "JSONDecodeError" /\ cls = "ValueError")

\* the values a schema row holds: the text typed in, or the float made from it
Str(s) == [t |-> "str", v |-> s]

Float(repr) == [t |-> "float", v |-> repr]

\* no value bound to a column
Null == [t |-> "null", v |-> NULL]

\* the texts float() accepts among the texts typed in
IsNumeric(s) == s = "30"

\* float(input_value) for a text float() accepts: "30" becomes 30.0
FloatOf(s) == Float(s \o ".0")

-----------------------------------------------------------------------------
(* The database engine, for the tables process_schema names *)

DefaultTable == "dynamic_data"

ChatHistory == "chat_history"

\* the columns of chat_history
ChatHistoryColumns == <<[name |-> "user_id", type |-> "TEXT"], [name |-> "conversation_id", type |-> "TEXT"], [name |-> "message_type", type |-> "TEXT"], [name |-> "content", type |-> "TEXT"]>>

\* does the table exist, and with which columns
TableExists(tbls, name) == name = ChatHistory \/ tbls[name] # NoTable

ColumnsOf(tbls, name) == IF name = ChatHistory THEN ChatHistoryColumns ELSE tbls[name].cols

NamesOf(columns) == {columns[i].name : i \in DOMAIN columns}

Distinct(columns) == \A i, j \in DOMAIN columns : columns[i].name = columns[j].name => i = j

\* CREATE TABLE IF NOT EXISTS name (columns): nothing when the table exists, an error for a column named twice
CreateTableIfNotExists(tbls, name, columns) ==
    IF TableExists(tbls, name) THEN [ok |-> TRUE, tables |-> tbls]
    ELSE IF ~Distinct(columns) THEN [ok |-> FALSE, tables |-> tbls]
    ELSE [ok |-> TRUE, tables |-> [tbls EXCEPT ![name] = [cols |-> columns, rows |-> <<>>]]]

\* a bound value goes into a column of this type: a text into NUMERIC only when it reads as a number
Castable(value, type) == type = "TEXT" \/ value.t = "float" \/ IsNumeric(value.v)

\* INSERT INTO name (keys) VALUES (...) is accepted: some column, every column one of the table's, every value castable
InsertAccepted(columns, data) == data # <<>> /\ \A i \in DOMAIN data : \E c \in DOMAIN columns : columns[c].name = data[i][1] /\ Castable(data[i][2], columns[c].type)

\* the row stored: the bound value of each named column, NULL elsewhere
StoredRow(columns, data) == [n \in NamesOf(columns) |-> IF \E i \in DOMAIN data : data[i][1] = n THEN (CHOOSE p \in {data[i] : i \in DOMAIN data} : p[1] = n)[2] ELSE Null]

\* a stored value as chat_history's TEXT columns keep it
AsText(value) == IF value.t = "null" THEN NULL ELSE value.v

-----------------------------------------------------------------------------
(* process_schema *)

\* line 127: the column type of a field
ColumnType(field) == IF field.type = "text" THEN "TEXT" ELSE "NUMERIC"

ColumnsSql(fields) == [i \in DOMAIN fields |-> [name |-> fields[i].name, type |-> ColumnType(fields[i])]]

\* data_to_insert[key] = value: a dict keeps a key's first position and its last value
DictSet(d, key, value) == IF \E i \in DOMAIN d : d[i][1] = key THEN [i \in DOMAIN d |-> IF d[i][1] = key THEN <<key, value>> ELSE d[i]] ELSE Append(d, <<key, value>>)

\* lines 135-136: the value kept for a field
Coerce(field, input_value) == IF field.type = "number" THEN FloatOf(input_value) ELSE Str(input_value)

RECURSIVE Collect(_, _, _, _)
\* lines 132-137: prompt for each field in order; float() of a text that is no number raises ValueError
Collect(fields, inputs, i, data) ==
    IF i > Len(fields) THEN [raise |-> "none", data |-> data, prompted |-> Len(fields)]
    ELSE IF fields[i].type = "number" /\ ~IsNumeric(inputs[i]) THEN [raise |-> "ValueError", data |-> data, prompted |-> i]
    ELSE Collect(fields, inputs, i + 1, DictSet(data, fields[i].name, Coerce(fields[i], inputs[i])))

\* a statement of one run as the cursor sees it: what it is, on which table, and whether it and its commit went through
Statement(sql, table, ok) == [sql |-> sql, table |-> table, ok |-> ok]

\* a call of the model: the message list sent, and whether a reply came back
Call(messages, ok) == [messages |-> messages, ok |-> ok]

\* what a run of a handler leaves: the database, what it did, and how it ended
Result(h, app, tbls, stmts, prompts, llm, outcome) == [heap |-> h, appended |-> app, tables |-> tbls, stmts |-> stmts, prompts |-> prompts, llm |-> llm, outcome |-> outcome]

Raise(exc) == [kind |-> "raise", exc |-> exc]

Return(value) == [kind |-> "return", value |-> value]

\* a string handed back to the UI
Text(string) == [text |-> string]

\* line 145
Confirmation(table_name) == [text |-> "Data successfully saved to table", table |-> table_name]

\* line 123
TableName(schema) == Get(schema, "table_name", DefaultTable)

\* lines 140-144 on the engine: the row goes to chat_history's heap or to the named table
InsertRow(h, app, tbls, table_name, data, place) ==
    LET row == StoredRow(ColumnsOf(tbls, table_name), data)
        chat == [user_id |-> AsText(row.user_id), conversation_id |-> AsText(row.conversation_id), message_type |-> AsText(row.message_type), content |-> AsText(row.content)]
        key == <<chat.user_id, chat.conversation_id>>
    IN  IF table_name = ChatHistory
        THEN Result(InsertAt(h, place, chat), IF key \in Keys THEN [app EXCEPT ![key] = Append(@, RowMessage(chat))] ELSE app, tbls, <<>>, 0, <<>>, Return(Text("")))
        ELSE Result(h, app, [tbls EXCEPT ![table_name].rows = Append(@, row)], <<>>, 0, <<>>, Return(Text("")))

\* process_schema(schema): dbFail names the statement (1 CREATE, 2 INSERT) that fails in the engine or at its commit
\* lines 131-145: after the CREATE went through
CollectAndInsert(table_name, got, dbFail, place, h, app, tbls) ==
    LET create == Statement("CREATE TABLE IF NOT EXISTS", table_name, TRUE)
        accepted == dbFail # 2 /\ InsertAccepted(ColumnsOf(tbls, table_name), got.data)
        insert == Statement("INSERT", table_name, accepted)
    IN  IF got.raise # "none" THEN Result(h, app, tbls, <<create>>, got.prompted, <<>>, Raise(got.raise))
        ELSE IF ~accepted THEN Result(h, app, tbls, <<create, insert>>, got.prompted, <<>>, Raise("DatabaseError"))
        ELSE [InsertRow(h, app, tbls, table_name, got.data, place) EXCEPT !.stmts = <<create, insert>>, !.prompts = got.prompted, !.outcome = Return(Confirmation(table_name))]

\* lines 126-129, then the rest
CreateThenInsert(table_name, fields, created, inputs, dbFail, place, h, app, tbls) ==
    IF dbFail = 1 \/ ~created.ok THEN Result(h, app, tbls, <<Statement("CREATE TABLE IF NOT EXISTS", table_name, FALSE)>>, 0, <<>>, Raise("DatabaseError"))
    ELSE CollectAndInsert(table_name, Collect(fields, inputs, 1, <<>>), dbFail, place, h, app, created.tables)

\* lines 124-129 for the table named
ProcessFields(table_name, fields, inputs, dbFail, place, h, app, tbls) == CreateThenInsert(table_name, fields, CreateTableIfNotExists(tbls, table_name, ColumnsSql(fields)), inputs, dbFail, place, h, app, tbls)

\* process_schema(schema): dbFail names the statement (1 CREATE, 2 INSERT) that fails in the engine or at its commit;
\* schema.get of a value that is no dict raises AttributeError
ProcessSchema(schema, inputs, dbFail, place, h, app, tbls) ==
    IF schema.type # "dict" THEN Result(h, app, tbls, <<>>, 0, <<>>, Raise("AttributeError"))
    ELSE ProcessFields(TableName(schema.value), Get(schema.value, "fields", <<>>), inputs, dbFail, place, h, app, tbls)

-----------------------------------------------------------------------------
(* chat_with_memory and handle_interaction *)

\* line 36
SystemMessage == [class |-> "SystemMessage", content |-> "You are a helpful assistant."]

\* Prompt with the history placeholder left out
PromptWithoutHistory(history, question) == <<SystemMessage, HumanMessage(question)>>

\* chat_prompt: the system instruction, the history, the question
Prompt(history, question) == <<SystemMessage>> \o history \o <<HumanMessage(question)>>

\* TurnMessages with the output stored before the input
TurnMessagesReversed(question, reply) == <<AIMessage(reply), HumanMessage(question)>>

\* the messages the runnable stores after a reply: the input, then the output
TurnMessages(question, reply) == <<HumanMessage(question), AIMessage(reply)>>

\* chat_with_memory.invoke({"question": question}) for the configured key: load the history (statement 1), call the
\* model, store the question (statement 2) and the reply (statement 3); reply is "" when the provider fails
ChatInvoke(question, key, reply, dbFail, places, h, app, tbls) ==
    LET select == Statement("SELECT", ChatHistory, dbFail # 1)
        first == Statement("INSERT", ChatHistory, dbFail # 2)
        second == Statement("INSERT", ChatHistory, dbFail # 3)
        call == Call(Prompt(FetchExistingMessages(h, key[1], key[2]), question), reply # "")
        turn == TurnMessages(question, reply)
        h1 == InsertAt(h, places[1], ChatRow(key[1], key[2], turn[1]))
        app1 == [app EXCEPT ![key] = Append(@, turn[1])]
        h2 == InsertAt(h1, places[2], ChatRow(key[1], key[2], turn[2]))
        app2 == [app1 EXCEPT ![key] = Append(@, turn[2])]
    IN  IF dbFail = 1 THEN Result(h, app, tbls, <<select>>, 0, <<>>, Raise("DatabaseError"))
        ELSE IF reply = "" THEN Result(h, app, tbls, <<select>>, 0, <<call>>, Raise("ProviderError"))
        ELSE IF dbFail = 2 THEN Result(h, app, tbls, <<select, first>>, 0, <<call>>, Raise("DatabaseError"))
        ELSE IF dbFail = 3 THEN Result(h1, app1, tbls, <<select, first, second>>, 0, <<call>>, Raise("DatabaseError"))
        ELSE Result(h2, app2, tbls, <<select, first, second>>, 0, <<call>>, Return(Text(reply)))

\* Caught for a handler written "except ValueError"
CaughtValueError(exc) == IsInstance(exc, "ValueError")

\* Caught for a handler written "except KeyError"
CaughtKeyError(exc) == IsInstance(exc, "KeyError")

\* line 162: the exceptions the handler catches
Caught(exc) == IsInstance(exc, "JSONDecodeError")

\* line 163
InvalidFormat == Text("Invalid JSON format for schema.")

\* line 158: is a schema provided
SchemaProvided(schema) == Strip(schema) # <<>>

\* lines 159-163: the try block and its handler
Except(ran) == IF ran.outcome.kind = "raise" /\ Caught(ran.outcome.exc) THEN [ran EXCEPT !.outcome = Return(InvalidFormat)] ELSE ran

TryLoads(parsed, inputs, dbFail, place, h, app, tbls) == IF parsed.raise = "none" THEN ProcessSchema(parsed, inputs, dbFail, place, h, app, tbls) ELSE Result(h, app, tbls, <<>>, 0, <<>>, Raise(parsed.raise))

SchemaMode(schema, inputs, dbFail, places, h, app, tbls) == Except(TryLoads(JsonLoads(schema), inputs, dbFail, places[1], h, app, tbls))

\* handle_interaction(schema, question, history): one UI submission, run to its end. key is what the runnable's
\* configuration resolves user_id and conversation_id to; inputs, reply, dbFail and places are the environment's answers
\* (a statement may fail in one submission and go through in the next, as after a failed commit, or fail in every
\* later submission, as after a failed execute, which the source never rolls back: both are choices of dbFail)
HandleInteraction(schema, question, key, inputs, reply, dbFail, places) ==
    LET mode == IF SchemaProvided(schema) THEN "schema" ELSE "chat"
    IN  \E r \in {IF mode = "schema" THEN SchemaMode(schema, inputs, dbFail, places, heap, appended, tables) ELSE ChatInvoke(question, key, reply, dbFail, places, heap, appended, tables)} :
        /\ Len(r.heap) <= MaxRows
        /\ \A t \in DOMAIN r.tables : r.tables[t] # NoTable => Len(r.tables[t].rows) <= MaxDynRows
        /\ heap' = r.heap
        /\ appended' = r.appended
        /\ tables' = r.tables
        /\ last' = [op |-> "handle_interaction", schema |-> schema, question |-> question, mode |-> mode, key |-> IF mode = "chat" THEN key ELSE <<>>, stmts |-> r.stmts, prompts |-> SubSeq(inputs, 1, r.prompts), llm |-> r.llm, outcome |-> r.outcome]
        /\ UNCHANGED <<hist, cursor, req>>

-----------------------------------------------------------------------------

Init ==
    /\ heap = <<>>
    /\ appended = [k \in Keys |-> <<>>]
    /\ tables = [t \in DynTables |-> NoTable]
    /\ hist = NoObject
    /\ last = [op |-> "start"]
    /\ cursor = NoResult
    /\ req = [t \in Threads |-> Idle]

StoreNext ==
    \/ \E k \in Keys, dbOk \in BOOLEAN : Construct(k[1], k[2], dbOk)
    \/ \E m \in Messages, place \in 1..MaxRows, dbOk \in BOOLEAN : AddMessage(m, place, dbOk)
    \/ \E dbOk \in BOOLEAN : Clear(dbOk)

\* the fields a schema may list
AgeField == [name |-> "age", label |-> "Age", type |-> "number"]

ContentField == [name |-> "content", label |-> "Content", type |-> "text"]

FieldSpecs == {AgeField, ContentField}

FieldLists == UNION {[1..n -> FieldSpecs] : n \in 0..MaxFields}

\* the JSON objects submitted: without table_name and with any fields or none, and two that name their table
PeopleDoc == ObjectDoc([table_name |-> "people", fields |-> <<AgeField, ContentField>>])

ChatHistoryDoc == ObjectDoc([table_name |-> ChatHistory, fields |-> <<ContentField>>])

ObjectDocs == {ObjectDoc(<<>>), PeopleDoc} \cup {ObjectDoc([fields |-> f]) : f \in FieldLists}

\* the schema texts submitted: empty or blank, and a document, possibly with whitespace around it
BlankTexts == {<<>>, <<WS>>}

DocTexts == {<<d>> : d \in {MalformedDoc, NumberDoc} \cup ObjectDocs} \cup {<<WS, MalformedDoc>>}

SampleTexts == {<<MalformedDoc>>, <<WS, MalformedDoc>>, <<NumberDoc>>, <<PeopleDoc>>, <<ChatHistoryDoc>>}

\* the key the runnable is configured with (lines 101-118)
ConfiguredKey == <<"u1", "c1">>

\* a submission with no schema text: the environment answers the SELECT, the model call and the two INSERTs
SubmitQuestion(keys) == \E schema \in BlankTexts, question \in Contents, key \in keys, reply \in Replies \cup {""}, dbFail \in 0..3, places \in (1..MaxRows) \X (1..MaxRows + 1) : ValidPlaces(heap, places) /\ HandleInteraction(schema, question, key, <<>>, reply, dbFail, places)

\* the input() calls a schema text can lead to: one for each of its fields (lines 132-133)
PromptCount(parsed) == IF parsed.raise = "none" /\ parsed.type = "dict" THEN Len(Get(parsed.value, "fields", <<>>)) ELSE 0

\* a submission with a schema text: the environment answers the prompts, the CREATE and the INSERT
SubmitSchema(texts) == \E schema \in texts, question \in Contents, dbFail \in 0..2, place \in 1..MaxRows : \E inputs \in [1..PromptCount(JsonLoads(schema)) -> Inputs] : place \in InsertPlaces(heap) /\ HandleInteraction(schema, question, ConfiguredKey, inputs, "", dbFail, <<place, place>>)

Next ==
    \/ SubmitQuestion({ConfiguredKey})
    \/ SubmitSchema(SampleTexts)

\* the program: UI submissions, one at a time
Spec == Init /\ [][Next]_vars

\* the program used for chat only, by several users
ChatSpec == Init /\ [][SubmitQuestion(Keys)]_vars

\* the program used for schemas only
SchemaSpec == Init /\ [][SubmitSchema(DocTexts)]_vars

\* the store used through its own interface
StoreSpec == Init /\ [][StoreNext]_vars

-----------------------------------------------------------------------------
(* Two submissions run by two worker threads on the one cursor, statement by statement (chat mode) *)

\* a thread takes a submission: a question for a key
Begin(t, key, question) ==
    /\ req[t].pc = "idle"
    /\ req' = [req EXCEPT ![t] = [pc |-> "execute", key |-> key, question |-> question, fetched |-> "none"]]
    /\ UNCHANGED <<heap, appended, tables, hist, last, cursor>>

\* lines 67-73: db_cursor.execute(SELECT ...): the cursor now holds this statement's rows
ExecuteSelect(t) ==
    /\ req[t].pc = "execute"
    /\ cursor' = [rows |-> SelectRows(heap, req[t].key[1], req[t].key[2])]
    /\ req' = [req EXCEPT ![t] = [@ EXCEPT !.pc = "fetchall"] @@ [selected |-> SelectRows(heap, req[t].key[1], req[t].key[2])]]
    /\ UNCHANGED <<heap, appended, tables, hist, last>>

\* line 74: db_cursor.fetchall(): whatever the cursor holds now; an error when its last statement returned no rows
Fetchall(t) ==
    /\ req[t].pc = "fetchall"
    /\ cursor' = IF cursor = NoResult THEN cursor ELSE [rows |-> <<>>]
    /\ req' = [req EXCEPT ![t] = IF cursor = NoResult THEN [@ EXCEPT !.pc = "raised", !.fetched = "error"] ELSE [@ EXCEPT !.pc = "invoke", !.fetched = "rows"] @@ [rows |-> cursor.rows]]
    /\ UNCHANGED <<heap, appended, tables, hist, last>>

\* the model is called with the history loaded and the question
CallModel(t, reply) ==
    /\ req[t].pc = "invoke"
    /\ req' = [req EXCEPT ![t] = [@ EXCEPT !.pc = "add_question"] @@ [reply |-> reply]]
    /\ UNCHANGED <<heap, appended, tables, hist, last, cursor>>

\* lines 55-63 for the question, then for the reply: db_cursor.execute(INSERT ...) leaves the cursor without rows
AddTurnMessage(t) ==
    /\ req[t].pc \in {"add_question", "add_reply"}
    /\ Len(heap) < MaxRows
    /\ LET message == IF req[t].pc = "add_question" THEN HumanMessage(req[t].question) ELSE AIMessage(req[t].reply)
       IN  /\ heap' = Append(heap, ChatRow(req[t].key[1], req[t].key[2], message))
           /\ appended' = [appended EXCEPT ![req[t].key] = Append(@, message)]
    /\ cursor' = NoResult
    /\ req' = [req EXCEPT ![t].pc = IF @ = "add_question" THEN "add_reply" ELSE "returned"]
    /\ UNCHANGED <<tables, hist, last>>

\* the handler is over: the thread is free again
Finish(t) ==
    /\ req[t].pc \in {"returned", "raised"}
    /\ req' = [req EXCEPT ![t] = Idle]
    /\ UNCHANGED <<heap, appended, tables, hist, last, cursor>>

ConcNext ==
    \/ \E t \in Threads, key \in Keys, question \in Contents : Begin(t, key, question)
    \/ \E t \in Threads : ExecuteSelect(t)
    \/ \E t \in Threads : Fetchall(t)
    \/ \E t \in Threads, reply \in Replies : CallModel(t, reply)
    \/ \E t \in Threads : AddTurnMessage(t)
    \/ \E t \in Threads : Finish(t)

\* submissions run concurrently by the UI's worker threads
ConcSpec == Init /\ [][ConcNext]_vars

-----------------------------------------------------------------------------
(* The conversation store (StoreSpec) *)

\* C1: for every key, a load by a fresh PersistentChatHistory returns exactly the messages appended
\* for that key, in insertion order, with their role tags. (The SELECT has no ORDER BY and the table no
\* ordering column: once a DELETE has freed a slot, a later row may be scanned before an earlier one.)
C1_LoadReturnsAppendedInOrder == \A k \in Keys : FetchExistingMessages(heap, k[1], k[2]) = appended[k]

\* C5: after a clear that went through, a fresh load for the same key returns the empty sequence
\* and the clearing object's own list is empty
C5_ClearThenLoadEmpty == (last.op = "clear" /\ last.ok) => (FetchExistingMessages(heap, last.key[1], last.key[2]) = <<>> /\ hist.messages = <<>>)

\* a clear that deleted at least two rows and left another key's row in place
C5_Witness == last.op = "clear" /\ last.ok /\ last.rowcount >= 2 /\ RowCount(heap) >= 1 /\ heap[1] = Free

-----------------------------------------------------------------------------
(* Chat mode (ChatSpec) *)

\* C2: a chat-mode submission calls the model at most once, and exactly once when the history was loaded,
\* with the list [system instruction, the key's stored history in insertion order, the question]; when it
\* returns, exactly two messages were appended for that key, the question and then the reply returned,
\* and no other key's conversation changed
C2_ChatTurn ==
    [][(last'.op = "handle_interaction" /\ last'.mode = "chat") =>
        LET key == last'.key
            q == last'.question
            H == appended[key]
        IN  /\ Len(last'.llm) <= 1
            /\ last'.stmts[1].ok => (Len(last'.llm) = 1 /\ last'.llm[1].messages = <<SystemMessage>> \o H \o <<HumanMessage(q)>>)
            /\ last'.outcome.kind = "return" =>
                /\ last'.llm[1].ok
                /\ appended' = [appended EXCEPT ![key] = H \o <<HumanMessage(q), AIMessage(last'.outcome.value.text)>>]
                /\ FetchExistingMessages(heap', key[1], key[2]) = FetchExistingMessages(heap, key[1], key[2]) \o <<HumanMessage(q), AIMessage(last'.outcome.value.text)>>
                /\ RowCount(heap') = RowCount(heap) + 2]_vars

\* a chat turn that went through on a key with a stored history
C2_Witness == last.op = "handle_interaction" /\ last.mode = "chat" /\ last.outcome.kind = "return" /\ Len(last.llm[1].messages) >= 3

Stored(k) == FetchExistingMessages(heap, k[1], k[2])

Classes(messages) == [i \in DOMAIN messages |-> messages[i].class]

\* C10 as claimed: every stored conversation is a sequence of complete turns, human then ai
C10_CompleteTurns == \A k \in Keys : Len(Stored(k)) % 2 = 0 /\ \A i \in DOMAIN Stored(k) : Stored(k)[i].class = IF i % 2 = 1 THEN "HumanMessage" ELSE "AIMessage"

\* C10 as amended: no reply is stored without its question: every ai message comes right after a human
\* message (so a conversation starts with a human message and holds no two ai messages in a row)
C10_NoReplyWithoutQuestion == \A k \in Keys : \A i \in DOMAIN Stored(k) : Stored(k)[i].class = "AIMessage" => (i > 1 /\ Stored(k)[i - 1].class = "HumanMessage")

\* a complete turn followed by a question whose reply was not stored
C10_Witness == last.op = "handle_interaction" /\ last.mode = "chat" /\ last.outcome = Raise("DatabaseError") /\ Len(last.stmts) = 3 /\ Classes(Stored(last.key)) = <<"HumanMessage", "AIMessage", "HumanMessage">>

-----------------------------------------------------------------------------
(* The dispatcher (Spec) and the table writer (SchemaSpec) *)

NonBlank(text) == \E i \in DOMAIN text : text[i] # WS

NotJson(text) == \E i \in DOMAIN text : text[i] = MalformedDoc

\* the one document of a text
DocOf(text) == CHOOSE d \in {text[i] : i \in DOMAIN text} : d # WS

IsSchemaMapping(text) == NonBlank(text) /\ DocOf(text).json = "object" /\ {"table_name", "fields"} \subseteq DOMAIN DocOf(text).members

FieldsOf(text) == IF DocOf(text).json = "object" /\ "fields" \in DOMAIN DocOf(text).members THEN DocOf(text).members.fields ELSE <<>>

TableOf(text) == IF "table_name" \in DOMAIN DocOf(text).members THEN DocOf(text).members.table_name ELSE "dynamic_data"

Untouched == heap' = heap /\ appended' = appended /\ tables' = tables

\* C3 as claimed: a non-blank schema text that is not a mapping with table_name and fields gets the fixed
\* message, with no statement issued, no model call, and the database as it was
C3_NonSchemaTextRejected == [][(last'.op = "handle_interaction" /\ NonBlank(last'.schema) /\ ~IsSchemaMapping(last'.schema)) => (last'.outcome = Return(InvalidFormat) /\ last'.stmts = <<>> /\ last'.llm = <<>> /\ Untouched)]_vars

\* C3 as amended: a non-blank schema text that is not well-formed JSON gets the fixed message, with no
\* statement issued, no model call, and the database as it was
C3_MalformedJsonRejected == [][(last'.op = "handle_interaction" /\ NotJson(last'.schema)) => (last'.outcome = Return(InvalidFormat) /\ last'.stmts = <<>> /\ last'.llm = <<>> /\ Untouched)]_vars

\* malformed text, with whitespace before it, rejected while the database holds a conversation and a table
C3_Witness == last.op = "handle_interaction" /\ last.schema = <<WS, MalformedDoc>> /\ last.outcome = Return(InvalidFormat) /\ heap # <<>> /\ tables["people"] # NoTable

\* C6: the schema text alone decides the mode: non-blank after trimming runs schema mode, which calls no
\* model and writes nothing to chat_history; blank runs chat mode, which issues no CREATE TABLE and no
\* insert into a schema's table
C6_ModeBySchemaText ==
    [][last'.op = "handle_interaction" =>
        IF NonBlank(last'.schema)
        THEN last'.mode = "schema" /\ last'.llm = <<>> /\ heap' = heap
        ELSE last'.mode = "chat" /\ tables' = tables /\ \A i \in DOMAIN last'.stmts : last'.stmts[i].sql \in {"SELECT", "INSERT"} /\ last'.stmts[i].table = ChatHistory]_vars

\* the error of the last submission, as its inputs and the environment's answers show it
ValueErrorRaised == last.mode = "schema" /\ last.prompts # <<>> /\ FieldsOf(last.schema)[Len(last.prompts)].type = "number" /\ last.prompts[Len(last.prompts)] # "30"

StatementFailed == \E i \in DOMAIN last.stmts : ~last.stmts[i].ok

CallFailed == \E i \in DOMAIN last.llm : ~last.llm[i].ok

\* C7: the fixed message is returned exactly when the schema text is not JSON; a float() of a text that
\* is no number, a failed statement and a failed model call each end the submission with that error raised,
\* and the failed statement or call was issued once and nothing after it
C7_OnlyParseErrorCaught ==
    last.op = "handle_interaction" =>
        /\ (last.outcome = Return(InvalidFormat)) <=> (last.mode = "schema" /\ NotJson(last.schema))
        /\ ValueErrorRaised => last.outcome = Raise("ValueError")
        /\ StatementFailed => (last.outcome = Raise("DatabaseError") /\ \A i \in DOMAIN last.stmts : ~last.stmts[i].ok => i = Len(last.stmts))
        /\ CallFailed => (last.outcome = Raise("ProviderError") /\ Len(last.llm) = 1 /\ Len(last.stmts) = 1)
        /\ last.outcome.kind = "raise" => (ValueErrorRaised \/ StatementFailed \/ CallFailed \/ last.outcome.exc = "AttributeError")

\* a text that is no number typed in for a number field
C7_Witness == last.op = "handle_interaction" /\ last.outcome = Raise("ValueError")

\* the columns a schema's fields imply
ImpliedColumns(fields) == [i \in DOMAIN fields |-> [name |-> fields[i].name, type |-> IF fields[i].type = "text" THEN "TEXT" ELSE "NUMERIC"]]

\* C4: whenever process_schema issues its INSERT, the table exists with exactly the columns the
\* submitted schema implies
C4_InsertIntoImpliedColumns == (last.op = "handle_interaction" /\ last.mode = "schema" /\ \E i \in DOMAIN last.stmts : last.stmts[i].sql = "INSERT") => (TableExists(tables, TableOf(last.schema)) /\ ColumnsOf(tables, TableOf(last.schema)) = ImpliedColumns(FieldsOf(last.schema)))

RowsOf(tbls, t) == IF tbls[t] = NoTable THEN <<>> ELSE tbls[t].rows

\* C8: a process_schema that returns has prompted once per field, has added exactly one row to the table
\* named (dynamic_data when none is), holding for each field the value typed in for it (as a float for a
\* number field), and returns the confirmation naming that table
C8_OneRowOfSolicitedValues ==
    [][(last'.op = "handle_interaction" /\ last'.mode = "schema" /\ last'.outcome.kind = "return" /\ last'.outcome.value # InvalidFormat) =>
        LET fields == FieldsOf(last'.schema)
            t == TableOf(last'.schema)
            row == RowsOf(tables', t)[Len(RowsOf(tables', t))]
        IN  /\ last'.outcome.value = Confirmation(t)
            /\ Len(last'.prompts) = Len(fields)
            /\ RowsOf(tables', t) = Append(RowsOf(tables, t), row)
            /\ \A u \in DynTables \ {t} : RowsOf(tables', u) = RowsOf(tables, u)
            /\ \A i \in DOMAIN fields : row[fields[i].name] = IF fields[i].type = "number" THEN Float(last'.prompts[i] \o ".0") ELSE Str(last'.prompts[i])]_vars

-----------------------------------------------------------------------------
(* Concurrent submissions (ConcSpec) *)

\* C9: a load gets the rows of its own SELECT, whatever the other thread does in between
C9_LoadSeesOwnResult == \A t \in Threads : (req[t].pc # "idle" /\ req[t].fetched # "none") => (req[t].fetched = "rows" /\ req[t].rows = req[t].selected)

=============================================================================
